---- MODULE Spec2Model ----
(***************************************************************************)
(* Model of the identity and node-tree core of ohim:                       *)
(*   - the per-kind ID counters (agent.rs, browsing_context.rs,            *)
(*     navigible.rs),                                                      *)
(*   - BrowsingContextGroup::window_agent and obtain_site                  *)
(*     (browsing_context.rs),                                              *)
(*   - Node::append_child / insert_child / insert / pre_insert / adopt     *)
(*     (dom/node.rs),                                                      *)
(*   - Realm::create / set_window_settings_object and the Realm registry   *)
(*     (agent.rs), Document::new / populate_hhb / active (dom/document.rs),*)
(*   - browsing context and group creation (browsing_context.rs),          *)
(*   - Navigable::create_top_traversable / initialize / navigate           *)
(*     (navigible.rs),                                                     *)
(*   - Agent::create and Realm registration called by several threads      *)
(*     (agent.rs),                                                         *)
(*   - Object::new (object.rs) and the host interface's Document           *)
(*     constructor (dom/document.rs),                                      *)
(*   - determin_origin (browsing_context.rs).                              *)
(***************************************************************************)
EXTENDS Integers, Sequences, FiniteSets, TLC

\* ------------------------------------------------------------------------
\* Bounds
\* ------------------------------------------------------------------------
\* number of window_agent calls made on the group
MaxCalls == 3
\* number of distinct opaque origins handed to window_agent
NumOpaque == 1
\* number of IDs of one kind allocated one after another
MaxIds == 3
\* number of threads allocating IDs at the same time
NumThreads == 2
\* number of ID allocations started by the threads altogether
MaxAllocs == 3
\* number of nodes in the store; the first NumDocs of them are Documents
NumNodes == 4
NumDocs == 2
\* number of tree operations performed
MaxOps == 2
\* number of RealmIDs allocated
MaxRealms == 2
\* number of Documents made
MaxDocs == 3
\* number of top-level traversables created
MaxNavs == 2
\* number of navigate calls made
MaxNavigate == 2
\* number of Object::new calls made
MaxObjects == 2
\* number of calls of the host interface's Document constructor
MaxHostCalls == 2
\* number of Agent::create and Realm::create calls started by the threads
MaxCreates == 2
\* number of determin_origin calls made
MaxDetermined == 2

\* ------------------------------------------------------------------------
\* Program constants
\* ------------------------------------------------------------------------
\* u16::MAX, the port obtain_site substitutes
U16_MAX == 65535

None == "None"

\* Option::None of a node handle (node handles are 1..NumNodes)
Nil == 0

\* enum IsolationMode
IsolationMode == {"None", "Logical", "Concrete"}

\* one static COUNT per `impl Default for <Kind>ID`
IDKinds == {"AgentID", "RealmID", "EnvironmentID", "BrowsingContextID",
            "BrowsingContextGroupID", "NavigableID", "SessionHistoryID"}

\* ------------------------------------------------------------------------
\* Origins (enum ImmutableOrigin): Tuple(scheme, host, port) | Opaque(uuid)
\* ------------------------------------------------------------------------
Schemes == {"https"}
Hosts == {"a.test", "b.test"}
Ports == {80, 8080, U16_MAX}

Tuple(scheme, host, port) ==
    [kind |-> "Tuple", scheme |-> scheme, host |-> host, port |-> port, uuid |-> 0]

Opaque(uuid) ==
    [kind |-> "Opaque", scheme |-> "", host |-> "", port |-> 0, uuid |-> uuid]

TupleOrigins == {Tuple(s, h, p) : s \in Schemes, h \in Hosts, p \in Ports}

OpaqueOrigins == {Opaque(u) : u \in 1..NumOpaque}

Origins == TupleOrigins \cup OpaqueOrigins

VARIABLES
    \* BrowsingContextGroup fields
    isolation_mode,
    agent_cluster,
    historical_agent_cluster,
    \* the window_agent calls made so far: arguments and returned AgentID
    calls,
    \* the static COUNT of every ID kind
    COUNT,
    \* static RELEVANT_AGENT: AgentID -> Agent
    RELEVANT_AGENT,
    \* the IDs returned by <Kind>ID::default(), per kind, in return order
    ids,
    \* threads inside <Kind>ID::default(): between the load and the fetch_add
    threads,
    \* the GC store: node handle -> NodeImpl
    store,
    \* a tree operation panicked
    panicked,
    \* an `index - 1` has wrapped: the build does not check integer overflow
    wrapped,
    \* per node, the number of NodeImpl::set_node_document calls made on it
    \* since it was constructed
    sets,
    \* number of tree operations called
    steps,
    \* static RELEVANT_REALM: RealmID -> Realm
    RELEVANT_REALM,
    \* the Realm values Realm::create returned that their callers still hold
    realms,
    \* static BROWSING_CONTEXT_SET: BrowsingContextID -> BrowsingContext
    BROWSING_CONTEXT_SET,
    \* static BROWSING_CONTEXT_GROUP_SET: BrowsingContextGroupID -> BrowsingContextGroup
    BROWSING_CONTEXT_GROUP_SET,
    \* number of Window objects made by Window::new; their handles are 1..windows
    windows,
    \* number of opaque origins made by ImmutableOrigin::new_opaque
    uuids,
    \* the Document objects made by Document::new; their handles are 1..Len
    documents,
    \* the Navigable values create_top_traversable returned, in return order
    navigables,
    \* the SessionHistory values initialize returned, in return order
    initialized,
    \* the navigate calls made so far: the navigable, the arguments and how
    \* the call ended
    navigations,
    \* the Object::new calls made so far: arguments, what ExternRef::new did,
    \* and what the call did and returned
    objects,
    \* the calls of the host interface's Document constructor made so far: how
    \* each ended and the Document it returned
    constructed,
    \* threads inside Agent::create, or inside Realm::create followed by
    \* set_window_settings_object: their position and their local variables
    callers,
    \* the Agent and Realm values whose registering call has returned
    returned,
    \* the determin_origin calls made so far: arguments and returned origin
    determined

vars == <<isolation_mode, agent_cluster, historical_agent_cluster, calls,
          COUNT, RELEVANT_AGENT, ids, threads,
          store, panicked, wrapped, sets, steps,
          RELEVANT_REALM, realms, BROWSING_CONTEXT_SET, BROWSING_CONTEXT_GROUP_SET,
          windows, uuids, documents, navigables, initialized, navigations, objects, constructed, callers, returned,
          determined>>

pageVars == <<RELEVANT_REALM, realms, BROWSING_CONTEXT_SET, BROWSING_CONTEXT_GROUP_SET,
              windows, uuids, documents, navigables, initialized, navigations, objects, constructed, callers, returned,
          determined>>

treeVars == <<store, panicked, wrapped, sets, steps>>

groupVars == <<isolation_mode, agent_cluster, historical_agent_cluster, calls,
               RELEVANT_AGENT>>

groupVarsButAgents == <<isolation_mode, agent_cluster, historical_agent_cluster, calls>>

Threads == 1..NumThreads

\* the empty HashMap
EmptyMap == [k \in {} |-> None]

\* HashMap::insert
MapInsert_clear(m, k, v) == [x \in {k} |-> v]

MapInsert(m, k, v) == [x \in (DOMAIN m) \cup {k} |-> IF x = k THEN v ELSE m[x]]

\* ------------------------------------------------------------------------
\* ID allocation: COUNT.load(Relaxed); COUNT.fetch_add(1, Relaxed)
\* ------------------------------------------------------------------------
\* the value fetch_add leaves in the counter
fetch_add_none(c) == c

fetch_add(c) == c + 1

IdleThread == [pc |-> "idle", kind |-> None, id |-> 0]

InitIds ==
    /\ COUNT = [k \in IDKinds |-> 0]
    /\ ids = [k \in IDKinds |-> <<>>]
    /\ threads = [t \in Threads |-> IdleThread]

\* <Kind>ID::default() run by one caller without interruption
Default(kind) ==
    /\ Len(ids[kind]) < MaxIds
    /\ ids' = [ids EXCEPT ![kind] = Append(@, COUNT[kind])]
    /\ COUNT' = [COUNT EXCEPT ![kind] = fetch_add(@)]
    /\ UNCHANGED <<threads, groupVars, treeVars, pageVars>>

RECURSIVE SumLen(_, _)
SumLen(f, S) ==
    IF S = {} THEN 0
    ELSE LET k == CHOOSE x \in S : TRUE
         IN Len(f[k]) + SumLen(f, S \ {k})

\* allocations started so far by the threads: returned or in flight
Started == SumLen(ids, IDKinds) + Cardinality({t \in Threads : threads[t].pc = "loaded"})

\* let id = Self(COUNT.load(Ordering::Relaxed));
Load(t, kind) ==
    /\ threads[t].pc = "idle"
    /\ Started < MaxAllocs
    /\ threads' = [threads EXCEPT ![t] = [pc |-> "loaded", kind |-> kind, id |-> COUNT[kind]]]
    /\ UNCHANGED <<COUNT, ids, groupVars, treeVars, pageVars>>

\* COUNT.fetch_add(1, Ordering::Relaxed); id
FetchAdd(t) ==
    /\ threads[t].pc = "loaded"
    /\ COUNT' = [COUNT EXCEPT ![threads[t].kind] = fetch_add(@)]
    /\ ids' = [ids EXCEPT ![threads[t].kind] = Append(@, threads[t].id)]
    /\ threads' = [threads EXCEPT ![t] = IdleThread]
    /\ UNCHANGED <<groupVars, treeVars, pageVars>>

\* ------------------------------------------------------------------------
\* BrowsingContextGroup::window_agent
\* ------------------------------------------------------------------------
obtain_site(origin) ==
    IF origin.kind = "Opaque"
    THEN origin
    ELSE Tuple(origin.scheme, origin.host, U16_MAX)

\* the key computed by lines 194-212
window_agent_key_site(mode, historical, origin, oac) == obtain_site(origin)

window_agent_key_nohist(mode, historical, origin, oac) ==
    IF mode = "None" THEN origin
    ELSE IF oac THEN origin ELSE obtain_site(origin)

window_agent_key(mode, historical, origin, oac) ==
    IF mode = "None" THEN origin
    ELSE IF origin \in DOMAIN historical THEN historical[origin]
    ELSE IF oac THEN origin ELSE obtain_site(origin)

\* the historical map after lines 194-212
window_agent_historical(mode, historical, origin, oac) ==
    IF mode # "None" /\ origin \notin DOMAIN historical
    THEN MapInsert(historical, origin, IF oac THEN origin ELSE obtain_site(origin))
    ELSE historical

\* line 215: !self.agent_cluster.contains_key(key)
cluster_missing_always(clusters, key) == TRUE

cluster_missing(clusters, key) == key \notin DOMAIN clusters

\* A new group has empty maps. The isolation mode is fixed when the group is
\* made and never written afterwards; window_agent branches on all of its
\* values, so a group of every mode is considered.
InitGroup ==
    /\ isolation_mode \in IsolationMode
    /\ agent_cluster = EmptyMap
    /\ historical_agent_cluster = EmptyMap
    /\ calls = <<>>
    /\ RELEVANT_AGENT = EmptyMap

WindowAgent(origin, oac) ==
    /\ Len(calls) < MaxCalls
    /\ LET key == window_agent_key(isolation_mode, historical_agent_cluster, origin, oac)
           create == cluster_missing(agent_cluster, key)
           \* Agent::create(false)
           id == COUNT["AgentID"]
           clusters == IF create
                       THEN MapInsert(agent_cluster, key,
                                [isolation_mode |-> isolation_mode,
                                 origin_keyed |-> (key = origin),
                                 agent |-> id])
                       ELSE agent_cluster
       IN /\ historical_agent_cluster' =
                window_agent_historical(isolation_mode, historical_agent_cluster, origin, oac)
          /\ agent_cluster' = clusters
          /\ COUNT' = IF create THEN [COUNT EXCEPT !["AgentID"] = fetch_add(@)] ELSE COUNT
          /\ RELEVANT_AGENT' = IF create
                               THEN MapInsert(RELEVANT_AGENT, id, [id |-> id, block |-> FALSE])
                               ELSE RELEVANT_AGENT
          /\ calls' = Append(calls, [origin |-> origin, oac |-> oac, key |-> key,
                                     agent |-> clusters[key].agent])
    /\ UNCHANGED <<isolation_mode, ids, threads, treeVars, pageVars>>

\* ------------------------------------------------------------------------
\* Node tree (dom/node.rs)
\* ------------------------------------------------------------------------
Nodes == 1..NumNodes

Documents == 1..NumDocs

idVars == <<COUNT, ids, threads>>

\* NodeImpl::new_with_type
new_with_type ==
    [parent_node |-> Nil, child_nodes |-> <<>>, previous_sibling |-> Nil,
     next_sibling |-> Nil, node_document |-> Nil]

\* Document::new: the new node's node document is the document itself;
\* Element::new: new_with_type, node document left unset
InitTree ==
    /\ store = [n \in Nodes |-> IF n \in Documents
                                THEN [new_with_type EXCEPT !.node_document = n]
                                ELSE new_with_type]
    /\ panicked = FALSE
    /\ wrapped = FALSE
    /\ sets = [n \in Nodes |-> 0]
    /\ steps = 0

\* The store value threaded through the calls of one operation, with the
\* panicked and wrapped flags the operation leaves and the set_node_document
\* calls made so far
St(nodes, p, w, c) == [nodes |-> nodes, panicked |-> p, wrapped |-> w, sets |-> c]

\* Node::append_child
append_child_setdoc(st, self, node) ==
    LET cn == st.nodes[self].child_nodes
        linked == IF cn # <<>>
                  THEN LET child == cn[Len(cn)]
                           n1 == [st.nodes EXCEPT ![child].next_sibling = node]
                       IN [n1 EXCEPT ![node].previous_sibling = child]
                  ELSE st.nodes
    IN [st EXCEPT !.nodes = [linked EXCEPT ![self].child_nodes = Append(@, node),
                                           ![node].node_document =
                                                st.nodes[self].node_document]]

append_child_noprev(st, self, node) ==
    LET cn == st.nodes[self].child_nodes
        linked == IF cn # <<>>
                  THEN [st.nodes EXCEPT ![cn[Len(cn)]].next_sibling = node]
                  ELSE st.nodes
    IN [st EXCEPT !.nodes = [linked EXCEPT ![self].child_nodes = Append(@, node)]]

append_child(st, self, node) ==
    LET cn == st.nodes[self].child_nodes
        linked == IF cn # <<>>
                  THEN LET child == cn[Len(cn)]
                           n1 == [st.nodes EXCEPT ![child].next_sibling = node]
                       IN [n1 EXCEPT ![node].previous_sibling = child]
                  ELSE st.nodes
    IN [st EXCEPT !.nodes = [linked EXCEPT ![self].child_nodes = Append(@, node)]]

\* VecDeque::insert(index, node), index counted from 0, index <= len
VecInsert(cn, index, node) ==
    SubSeq(cn, 1, index) \o <<node>> \o SubSeq(cn, index + 1, Len(cn))

insert_child_nonext(st, self, index, node, checks) ==
    IF index = 0 /\ checks
    THEN [st EXCEPT !.panicked = TRUE]
    ELSE LET cn == st.nodes[self].child_nodes
             n1 == IF index >= 1 /\ index <= Len(cn)
                   THEN LET prev == cn[index]
                            a == [st.nodes EXCEPT ![prev].next_sibling = node]
                        IN [a EXCEPT ![node].previous_sibling = prev]
                   ELSE st.nodes
             cn1 == n1[self].child_nodes
             n2 == IF index < Len(cn1)
                   THEN [n1 EXCEPT ![node].next_sibling = cn1[index + 1]]
                   ELSE n1
             cn2 == n2[self].child_nodes
             w == st.wrapped \/ index = 0
         IN IF index > Len(cn2)
            THEN St(n2, TRUE, w, st.sets)
            ELSE St([n2 EXCEPT ![self].child_nodes = VecInsert(cn2, index, node)],
                    st.panicked, w, st.sets)

\* Node::insert_child; `checks` says whether the build checks integer overflow
\* (debug profile: `index - 1` panics for index 0) or wraps (release profile:
\* `index - 1` is usize::MAX, which no child sequence reaches)
insert_child(st, self, index, node, checks) ==
    IF index = 0 /\ checks
    THEN \* attempt to subtract with overflow
         [st EXCEPT !.panicked = TRUE]
    ELSE LET cn == st.nodes[self].child_nodes
             \* child_nodes.get(index - 1)
             n1 == IF index >= 1 /\ index <= Len(cn)
                   THEN LET prev == cn[index]
                            a == [st.nodes EXCEPT ![prev].next_sibling = node]
                        IN [a EXCEPT ![node].previous_sibling = prev]
                   ELSE st.nodes
             cn1 == n1[self].child_nodes
             \* child_nodes.get(index)
             n2 == IF index < Len(cn1)
                   THEN LET next == cn1[index + 1]
                            a == [n1 EXCEPT ![node].next_sibling = next]
                        IN [a EXCEPT ![next].previous_sibling = node]
                   ELSE n1
             cn2 == n2[self].child_nodes
             w == st.wrapped \/ index = 0
         IN IF index > Len(cn2)
            THEN \* VecDeque::insert panics: index out of bounds
                 St(n2, TRUE, w, st.sets)
            ELSE St([n2 EXCEPT ![self].child_nodes = VecInsert(cn2, index, node)],
                    st.panicked, w, st.sets)

\* Node::adopt
adopt(st, node, document) ==
    LET old_document == st.nodes[node].node_document
        not_same == IF document # Nil /\ old_document # Nil
                    THEN document = old_document
                    ELSE FALSE
    IN IF not_same
       THEN \* set_node_document(document)
            [st EXCEPT !.nodes[node].node_document = document,
                       !.sets[node] = @ + 1]
       ELSE st

\* iter().position(): index, counted from 0, of the first occurrence; -1 if none
Position(cn, c) ==
    IF \E i \in DOMAIN cn : cn[i] = c
    THEN (CHOOSE i \in DOMAIN cn : cn[i] = c /\ \A j \in 1..(i - 1) : cn[j] # c) - 1
    ELSE -1

\* Node::insert with the `else` arm of lines 63-69 appending the node
insert_append(st, self, node, child, checks) ==
    LET st1 == adopt(st, node, st.nodes[self].node_document)
    IN IF child = Nil
       THEN append_child(st1, self, node)
       ELSE LET index == Position(st1.nodes[self].child_nodes, child)
            IN IF index >= 0
               THEN insert_child(st1, self, index, node, checks)
               ELSE append_child(st1, self, node)

\* Node::insert
insert(st, self, node, child, checks) ==
    LET st1 == adopt(st, node, st.nodes[self].node_document)
    IN IF child = Nil
       THEN append_child(st1, self, node)
       ELSE LET index == Position(st1.nodes[self].child_nodes, child)
            IN IF index >= 0
               THEN insert_child(st1, self, index, node, checks)
               ELSE st1

\* Node::pre_insert
pre_insert(st, self, node, child, checks) ==
    LET st1 == IF child # Nil /\ child = node
               THEN [st EXCEPT !.nodes[node].next_sibling = child]
               ELSE st
    IN insert(st1, self, node, child, checks)

\* the store as an operation finds it
Now == St(store, FALSE, wrapped, sets)

\* one call of a tree operation whose outcome is r
TreeCall(r) ==
    /\ ~panicked
    /\ steps < MaxOps
    /\ store' = r.nodes
    /\ panicked' = r.panicked
    /\ wrapped' = r.wrapped
    /\ sets' = r.sets
    /\ steps' = steps + 1
    /\ UNCHANGED <<groupVars, idVars, pageVars>>

\* The outcomes of a call under the builds the program may be: rel without
\* overflow checks, dbg with them. Once a subtraction has wrapped the build is
\* known to have them off.
BuildCall(rel, dbg) ==
    \/ TreeCall(rel)
    \/ /\ ~panicked
       /\ steps < MaxOps
       /\ ~wrapped
       /\ dbg # rel
       /\ TreeCall(dbg)

AppendChild(self, node) ==
    TreeCall(append_child(Now, self, node))

Adopt(node, document) ==
    TreeCall(adopt(Now, node, document))

InsertChild(self, index, node) ==
    /\ index <= Len(store[self].child_nodes) + 1
    /\ BuildCall(insert_child(Now, self, index, node, FALSE),
                 insert_child(Now, self, index, node, TRUE))

Insert(self, node, child) ==
    BuildCall(insert(Now, self, node, child, FALSE),
              insert(Now, self, node, child, TRUE))

PreInsert(self, node, child) ==
    BuildCall(pre_insert(Now, self, node, child, FALSE),
              pre_insert(Now, self, node, child, TRUE))

\* ------------------------------------------------------------------------
\* Realms, environments, documents and browsing contexts
\* (agent.rs, dom/document.rs, browsing_context.rs)
\* ------------------------------------------------------------------------
\* Option<T>: Option::None is the empty sequence, Some(x) the sequence <<x>>
Absent == <<>>

Some(x) == <<x>>

\* F applied to the value of v, with v evaluated once: the binding of a
\* `let` whose right-hand side is a call
Bind(v, F(_)) == CHOOSE y \in {F(x) : x \in {v}} : TRUE

\* the process-wide statics and the GC store, threaded through the calls of
\* one operation
World ==
    [COUNT |-> COUNT,
     RELEVANT_AGENT |-> RELEVANT_AGENT,
     RELEVANT_REALM |-> RELEVANT_REALM,
     BROWSING_CONTEXT_SET |-> BROWSING_CONTEXT_SET,
     BROWSING_CONTEXT_GROUP_SET |-> BROWSING_CONTEXT_GROUP_SET,
     windows |-> windows,
     uuids |-> uuids,
     documents |-> documents]

\* what one operation leaves in the statics and the store
Commit(w) ==
    /\ COUNT' = w.COUNT
    /\ RELEVANT_AGENT' = w.RELEVANT_AGENT
    /\ RELEVANT_REALM' = w.RELEVANT_REALM
    /\ BROWSING_CONTEXT_SET' = w.BROWSING_CONTEXT_SET
    /\ BROWSING_CONTEXT_GROUP_SET' = w.BROWSING_CONTEXT_GROUP_SET
    /\ windows' = w.windows
    /\ uuids' = w.uuids
    /\ documents' = w.documents
    /\ UNCHANGED <<isolation_mode, agent_cluster, historical_agent_cluster, calls,
                   ids, threads, treeVars, objects, callers, returned>>

\* a thread that is in none of the registering calls
IdleCaller == [pc |-> "idle", id |-> 0, block |-> FALSE, agent |-> 0, environment |-> 0]

InitPage ==
    /\ RELEVANT_REALM = EmptyMap
    /\ realms = {}
    /\ BROWSING_CONTEXT_SET = EmptyMap
    /\ BROWSING_CONTEXT_GROUP_SET = EmptyMap
    /\ windows = 0
    /\ uuids = 0
    /\ documents = <<>>
    /\ navigables = <<>>
    /\ initialized = <<>>
    /\ navigations = <<>>
    /\ objects = <<>>
    /\ constructed = <<>>
    /\ callers = [t \in Threads |-> IdleCaller]
    /\ returned = [agent |-> {}, realm |-> {}]
    /\ determined = <<>>

\* <Kind>ID::default() called by an operation: the ID and the world it leaves
ID_default(w, kind) ==
    [w |-> [w EXCEPT !.COUNT[kind] = fetch_add(@)], id |-> w.COUNT[kind]]

\* Agent::create
Agent_create_shared(w, block) ==
    IF DOMAIN w.RELEVANT_AGENT # {}
    THEN [w |-> w, id |-> CHOOSE a \in DOMAIN w.RELEVANT_AGENT : TRUE]
    ELSE LET a == ID_default(w, "AgentID")
         IN [w |-> [a.w EXCEPT !.RELEVANT_AGENT =
                         MapInsert(@, a.id, [id |-> a.id, block |-> block])],
             id |-> a.id]

Agent_create(w, block) ==
    LET a == ID_default(w, "AgentID")
    IN [w |-> [a.w EXCEPT !.RELEVANT_AGENT =
                    MapInsert(@, a.id, [id |-> a.id, block |-> block])],
        id |-> a.id]

\* Realm::create
Realm_create_registered(w, agent, global_object) ==
    LET r == ID_default(w, "RealmID")
        realm == [id |-> r.id, agent |-> agent, global_object |-> global_object,
                  settings_object |-> Absent]
    IN [w |-> [r.w EXCEPT !.RELEVANT_REALM = MapInsert(@, r.id, realm)],
        realm |-> realm]

Realm_create(w, agent, global_object) ==
    LET r == ID_default(w, "RealmID")
    IN [w |-> r.w,
        realm |-> [id |-> r.id, agent |-> agent, global_object |-> global_object,
                   settings_object |-> Absent]]

\* Realm::set_window_settings_object; the URLs and the top-level origin go
\* into private fields nothing reads
set_window_settings_object_fresh(w, self, environment) ==
    LET n == ID_default(w, "EnvironmentID")
        settings_object == [id |-> n.id, browsing_context |-> Absent, ready |-> FALSE]
        realm == [self EXCEPT !.settings_object = Some(settings_object)]
    IN [n.w EXCEPT !.RELEVANT_REALM = MapInsert(@, realm.id, realm)]

\* set_window_settings_object with the ready flag taken from the reserved
\* environment
set_window_settings_object_inherit(w, self, environment) ==
    LET e == IF environment # Absent
             THEN [w |-> w, id |-> environment[1].id,
                   browsing_context |-> environment[1].browsing_context]
             ELSE LET n == ID_default(w, "EnvironmentID")
                  IN [w |-> n.w, id |-> n.id, browsing_context |-> Absent]
        settings_object == [id |-> e.id, browsing_context |-> e.browsing_context,
                            ready |-> IF environment # Absent
                                      THEN environment[1].ready ELSE FALSE]
        realm == [self EXCEPT !.settings_object = Some(settings_object)]
    IN [e.w EXCEPT !.RELEVANT_REALM = MapInsert(@, realm.id, realm)]

set_window_settings_object(w, self, environment) ==
    LET e == IF environment # Absent
             THEN [w |-> w, id |-> environment[1].id,
                   browsing_context |-> environment[1].browsing_context]
             ELSE LET n == ID_default(w, "EnvironmentID")
                  IN [w |-> n.w, id |-> n.id, browsing_context |-> Absent]
        settings_object == [id |-> e.id, browsing_context |-> e.browsing_context,
                            ready |-> FALSE]
        realm == [self EXCEPT !.settings_object = Some(settings_object)]
    IN [e.w EXCEPT !.RELEVANT_REALM = MapInsert(@, realm.id, realm)]

\* ImmutableOrigin::new_opaque: a UUID no earlier origin has
new_opaque(w) ==
    [w |-> [w EXCEPT !.uuids = @ + 1], origin |-> Opaque(NumOpaque + w.uuids + 1)]

\* the serializations of the URLs handed to determin_origin
DOMUrls == {"about:blank", "about:srcdoc", "https://a.test:8080/", "data:,x"}

\* Url::origin when it is a tuple: only a URL of a special scheme has one
url_tuple(u) ==
    IF u = "https://a.test:8080/" THEN Some(Tuple("https", "a.test", 8080)) ELSE Absent

\* DOMUrl::origin: ImmutableOrigin::new turns an opaque url::Origin into a
\* new opaque ImmutableOrigin
DOMUrl_origin(w, u) ==
    IF url_tuple(u) # Absent
    THEN [w |-> w, origin |-> url_tuple(u)[1]]
    ELSE new_opaque(w)

\* determin_origin with the sandboxed-origin flag tested after the creator
\* origin
determin_origin_inherit(w, url, sandboxed_origin, origin) ==
    IF url = Absent THEN new_opaque(w)
    ELSE IF origin # Absent /\ url[1] \in {"about:srcdoc", "about:blank"}
    THEN [w |-> w, origin |-> origin[1]]
    ELSE IF sandboxed_origin THEN new_opaque(w)
    ELSE DOMUrl_origin(w, url[1])

\* determin_origin; sandboxed_origin is
\* flags.contains(SandboxingFlag::ORIGIN_BROWSING_CONTEXT)
determin_origin(w, url, sandboxed_origin, origin) ==
    IF sandboxed_origin THEN new_opaque(w)
    ELSE IF url = Absent THEN new_opaque(w)
    ELSE IF origin # Absent
    THEN IF url[1] = "about:srcdoc" \/ url[1] = "about:blank"
         THEN [w |-> w, origin |-> origin[1]]
         ELSE DOMUrl_origin(w, url[1])
    ELSE DOMUrl_origin(w, url[1])

\* BrowsingContextGroup::window_agent on the group value `group`
window_agent(w, group, origin, oac) ==
    LET key == window_agent_key(group.isolation_mode, group.historical_agent_cluster,
                                origin, oac)
        historical == window_agent_historical(group.isolation_mode,
                                              group.historical_agent_cluster, origin, oac)
        create == cluster_missing(group.agent_cluster, key)
        a == Agent_create(w, FALSE)
        clusters == IF create
                    THEN MapInsert(group.agent_cluster, key,
                            [isolation_mode |-> group.isolation_mode,
                             origin_keyed |-> (key = origin),
                             agent |-> a.id])
                    ELSE group.agent_cluster
    IN [w |-> IF create THEN a.w ELSE w,
        group |-> [group EXCEPT !.agent_cluster = clusters,
                                !.historical_agent_cluster = historical],
        agent |-> clusters[key].agent]

\* Document::new with DocumentImpl::new: the Document node (handle 1 of the
\* document's own nodes) has itself as node document; the browsing context
\* and the other arguments go into private fields nothing reads
Document_new(w, origin, base_url, realm) ==
    LET document == [origin |-> origin,
                     about_base_url |-> base_url,
                     url |-> "about:blank",
                     realm |-> realm,
                     document_element |-> Absent,
                     visibility |-> FALSE,
                     nodes |-> <<[new_with_type EXCEPT !.node_document = 1]>>]
    IN [w |-> [w EXCEPT !.documents = Append(@, document)],
        document |-> Len(w.documents) + 1]

\* Element::new: a new node of the document; the handle is its position
Element_new(w, document) ==
    [w |-> [w EXCEPT !.documents[document].nodes = Append(@, new_with_type)],
     element |-> Len(w.documents[document].nodes) + 1]

\* Document::populate_hhb
populate_hhb(w, document) ==
    Bind(Element_new(w, document), LAMBDA html :
    Bind(Element_new(html.w, document), LAMBDA head :
    Bind(Element_new(head.w, document), LAMBDA body :
    Bind(St(body.w.documents[document].nodes, FALSE, FALSE,
            [n \in DOMAIN body.w.documents[document].nodes |-> 0]), LAMBDA st0 :
    Bind(pre_insert(st0, 1, html.element, Nil, FALSE), LAMBDA st1 :
    Bind(pre_insert(st1, html.element, head.element, Nil, FALSE), LAMBDA st2 :
    Bind(pre_insert(st2, html.element, body.element, Nil, FALSE), LAMBDA st3 :
        [body.w EXCEPT !.documents[document].nodes = st3.nodes])))))))

\* Document::active
active_noready(w, self, context, visibility) ==
    LET id == w.documents[self].realm
        found == id \in DOMAIN w.RELEVANT_REALM
        window == IF found THEN w.RELEVANT_REALM[id].global_object ELSE Absent
    IN [w EXCEPT !.BROWSING_CONTEXT_SET[context].window = window,
                 !.documents[self].visibility = visibility]

active_insert(w, self, context, visibility) ==
    LET id == w.documents[self].realm
        found == id \in DOMAIN w.RELEVANT_REALM
        window == IF found THEN w.RELEVANT_REALM[id].global_object ELSE Absent
        realm == IF found
                 THEN w.RELEVANT_REALM[id]
                 ELSE [id |-> id, agent |-> 0, global_object |-> Absent,
                       settings_object |-> Absent]
        registry == MapInsert(w.RELEVANT_REALM, id,
                        IF realm.settings_object # Absent
                        THEN [realm EXCEPT !.settings_object[1].ready = TRUE]
                        ELSE realm)
    IN [w EXCEPT !.RELEVANT_REALM = registry,
                 !.BROWSING_CONTEXT_SET[context].window = window,
                 !.documents[self].visibility = visibility]

active(w, self, context, visibility) ==
    LET id == w.documents[self].realm
        \* RELEVANT_REALM.lock().unwrap().get_mut(&id)
        found == id \in DOMAIN w.RELEVANT_REALM
        window == IF found THEN w.RELEVANT_REALM[id].global_object ELSE Absent
        registry == IF found /\ w.RELEVANT_REALM[id].settings_object # Absent
                    THEN [w.RELEVANT_REALM EXCEPT ![id].settings_object[1].ready = TRUE]
                    ELSE w.RELEVANT_REALM
    IN [w EXCEPT !.RELEVANT_REALM = registry,
                 !.BROWSING_CONTEXT_SET[context].window = window,
                 !.documents[self].visibility = visibility]

\* BrowsingContext::new_browsing_context(None, None, group, store): no
\* creator, no embedder, empty sandboxing flags
new_browsing_context(w, group) ==
    Bind(ID_default(w, "BrowsingContextID"), LAMBDA c :
    Bind(determin_origin(c.w, Some("about:blank"), FALSE, Absent), LAMBDA o :
    Bind(window_agent(o.w, group, o.origin, FALSE), LAMBDA a :
    \* Window::new, Realm::create
    Bind(Realm_create([a.w EXCEPT !.windows = @ + 1], a.agent, Some(a.w.windows + 1)),
         LAMBDA r :
    Bind(set_window_settings_object(r.w, r.realm, Absent), LAMBDA w1 :
    Bind(Document_new(w1, o.origin, Absent, r.realm.id), LAMBDA d :
        [w |-> populate_hhb(d.w, d.document),
         group |-> a.group,
         context |-> [id |-> c.id, group |-> Absent, window |-> Absent],
         document |-> d.document]))))))

\* new_browsing_context_group_and_document without line 183
new_browsing_context_group_and_document_nolink(w) ==
    Bind(ID_default(w, "BrowsingContextGroupID"), LAMBDA g :
    Bind([id |-> g.id, browsing_context |-> {}, agent_cluster |-> EmptyMap,
          historical_agent_cluster |-> EmptyMap, isolation_mode |-> "None"], LAMBDA group :
    Bind(new_browsing_context(g.w, group), LAMBDA n :
    Bind([n.group EXCEPT !.browsing_context = @ \cup {n.context.id}], LAMBDA group1 :
        [w |-> [n.w EXCEPT !.BROWSING_CONTEXT_GROUP_SET = MapInsert(@, group1.id, group1)],
         group |-> group1.id,
         context |-> n.context,
         document |-> n.document]))))

\* BrowsingContextGroup::new_browsing_context_group_and_document
new_browsing_context_group_and_document(w) ==
    Bind(ID_default(w, "BrowsingContextGroupID"), LAMBDA g :
    \* BrowsingContextGroup::default()
    Bind([id |-> g.id, browsing_context |-> {}, agent_cluster |-> EmptyMap,
          historical_agent_cluster |-> EmptyMap, isolation_mode |-> "None"], LAMBDA group :
    Bind(new_browsing_context(g.w, group), LAMBDA n :
    Bind([n.group EXCEPT !.browsing_context = @ \cup {n.context.id}], LAMBDA group1 :
        [w |-> [n.w EXCEPT !.BROWSING_CONTEXT_GROUP_SET = MapInsert(@, group1.id, group1)],
         group |-> group1.id,
         context |-> [n.context EXCEPT !.group = Some(group1.id)],
         document |-> n.document]))))

\* BrowsingContext::new_top_browsing_context
new_top_browsing_context(w) ==
    Bind(new_browsing_context_group_and_document(w), LAMBDA n :
        [w |-> [n.w EXCEPT !.BROWSING_CONTEXT_SET = MapInsert(@, n.context.id, n.context)],
         group |-> n.group,
         context |-> n.context.id,
         document |-> n.document])

\* the AgentIDs handed to Realm::create
AgentIDs == {0, 1}

\* the reserved environments handed to set_window_settings_object
ReservedEnvironments ==
    {[id |-> i, browsing_context |-> b, ready |-> r] :
        i \in {0, 1}, b \in {Absent, Some(0)}, r \in BOOLEAN}

\* Realm::create(agent, None, ..), or Realm::create(agent,
\* Some(Window::new(store)), ..) as new_browsing_context calls it
RealmCreate(agent, with_window) ==
    /\ COUNT["RealmID"] < MaxRealms
    /\ \E r \in {IF with_window
                  THEN Realm_create([World EXCEPT !.windows = @ + 1], agent,
                                    Some(windows + 1))
                  ELSE Realm_create(World, agent, Absent)} :
          /\ realms' = realms \cup {r.realm}
          /\ Commit(r.w)
    /\ UNCHANGED <<navigables, initialized, navigations, constructed, determined>>

SetWindowSettingsObject(self, environment) ==
    /\ self \in realms
    /\ realms' = realms \ {self}
    /\ \E w \in {set_window_settings_object(World, self, environment)} : Commit(w)
    /\ UNCHANGED <<navigables, initialized, navigations, constructed, determined>>

\* Document::new called for a realm ID, with a newly determined origin
DocumentNew(realm) ==
    /\ Len(documents) < MaxDocs
    /\ \E o \in {determin_origin(World, Some("about:blank"), FALSE, Absent)} :
        \E d \in {Document_new(o.w, o.origin, Absent, realm)} : Commit(d.w)
    /\ UNCHANGED <<realms, navigables, initialized, navigations, constructed, determined>>

DocumentActive(self, context, visibility) ==
    /\ self \in DOMAIN documents
    /\ context \in DOMAIN BROWSING_CONTEXT_SET
    /\ \E w \in {active(World, self, context, visibility)} : Commit(w)
    /\ UNCHANGED <<realms, navigables, initialized, navigations, constructed, determined>>

NewTopBrowsingContext ==
    /\ COUNT["RealmID"] < MaxRealms
    /\ Len(documents) < MaxDocs
    /\ \E n \in {new_top_browsing_context(World)} : Commit(n.w)
    /\ UNCHANGED <<realms, navigables, initialized, navigations, constructed, determined>>

\* ------------------------------------------------------------------------
\* Navigables and session history (navigible.rs)
\* ------------------------------------------------------------------------
\* the target names handed to create_top_traversable
Targets == {"", "main"}

\* Navigable::initialize: the entry returned and the navigable as it is left
initialize_stepped(w, self, state, url, parent) ==
    LET s == ID_default(w, "SessionHistoryID")
        entry == [id |-> s.id, step |-> Some(1), url |-> url, state |-> state]
    IN [w |-> s.w,
        self |-> [self EXCEPT !.current_entry = Some(entry.id),
                              !.active_entry = Some(entry.id),
                              !.parent = parent],
        entry |-> entry]

initialize_noactive(w, self, state, url, parent) ==
    LET s == ID_default(w, "SessionHistoryID")
        entry == [id |-> s.id, step |-> Absent, url |-> url, state |-> state]
    IN [w |-> s.w,
        self |-> [self EXCEPT !.current_entry = Some(entry.id),
                              !.parent = parent],
        entry |-> entry]

initialize(w, self, state, url, parent) ==
    LET s == ID_default(w, "SessionHistoryID")
        entry == [id |-> s.id, step |-> Absent, url |-> url, state |-> state]
    IN [w |-> s.w,
        self |-> [self EXCEPT !.current_entry = Some(entry.id),
                              !.active_entry = Some(entry.id),
                              !.parent = parent],
        entry |-> entry]

\* Navigable::create_top_traversable(None, target, None, store): the
\* navigable returned, with the entry as initialize returned it
create_top_traversable(w, target) ==
    Bind(ID_default(w, "NavigableID"), LAMBDA n :
    Bind(new_top_browsing_context(n.w), LAMBDA t :
    \* Self::default() with the group and the context inserted
    Bind([id |-> n.id, parent |-> Absent, current_entry |-> Absent,
          active_entry |-> Absent, traversable |-> Absent,
          browsing_context |-> {t.context},
          browsing_context_group |-> {t.group}], LAMBDA traversable :
    Bind(t.w.documents[t.document], LAMBDA document :
    Bind([initiator_origin |-> Absent,
          origin |-> Some(document.origin),
          target |-> target,
          about_base_url |-> document.about_base_url,
          document |-> Some(t.document)], LAMBDA state :
    Bind(initialize(t.w, traversable, state, document.url, Absent), LAMBDA i :
    \* initial_entry.step = Some(0)
    Bind([i.entry EXCEPT !.step = Some(0)], LAMBDA initial_entry :
        [w |-> i.w,
         traversable |-> [i.self EXCEPT !.traversable =
                            Some([history_entries |->
                                    MapInsert(EmptyMap, initial_entry.id, initial_entry)])],
         entry |-> i.entry])))))))

CreateTopTraversable(target) ==
    /\ Len(navigables) < MaxNavs
    /\ Len(documents) < MaxDocs
    /\ \E c \in {create_top_traversable(World, target)} :
          /\ navigables' = Append(navigables, c.traversable)
          /\ initialized' = Append(initialized, c.entry)
          /\ Commit(c.w)
    /\ UNCHANGED <<realms, navigations, constructed, determined>>

\* Navigable::navigate: the body is empty, so the call returns and leaves
\* the navigable as it was
navigate(self, url, history_handling) == [self |-> self, panicked |-> FALSE]

\* the URLs handed to navigate
Urls == {"about:blank", "https://a.test/"}

\* enum NavigationHistoryBehavior
NavigationHistoryBehavior == {"Auto", "Push", "Replace"}

Navigate(i, url, history_handling) ==
    /\ i \in DOMAIN navigables
    /\ Len(navigations) < MaxNavigate
    /\ LET r == navigate(navigables[i], url, history_handling)
       IN /\ navigables' = [navigables EXCEPT ![i] = r.self]
          /\ navigations' = Append(navigations,
                                [navigable |-> navigables[i].id, url |-> url,
                                 history_handling |-> history_handling,
                                 panicked |-> r.panicked])
    /\ UNCHANGED <<groupVars, idVars, treeVars, RELEVANT_REALM, realms,
                   BROWSING_CONTEXT_SET, BROWSING_CONTEXT_GROUP_SET, windows, uuids,
                   documents, initialized, objects, constructed, callers, returned,
                   determined>>

\* ------------------------------------------------------------------------
\* Agent::create and Realm::create / set_window_settings_object called by
\* several threads (agent.rs): the ID allocations are a load and a fetch_add,
\* the registry insert is made under the registry's lock
\* ------------------------------------------------------------------------
\* RELEVANT_AGENT.lock().unwrap().get(&id), RELEVANT_REALM.lock().unwrap().get(&id)
lookup(registry, id) == IF id \in DOMAIN registry THEN Some(registry[id]) ELSE Absent

\* registering calls started so far: every one advances the AgentID or the
\* RealmID counter once, right after its load
Created ==
    COUNT["AgentID"] + COUNT["RealmID"]
        + Cardinality({t \in Threads : callers[t].pc \in {"agent_loaded", "realm_loaded"}})

\* everything but the counters, the registries and the callers
registryFrame ==
    <<groupVarsButAgents, ids, threads, treeVars, realms, BROWSING_CONTEXT_SET,
      BROWSING_CONTEXT_GROUP_SET, windows, uuids, documents, navigables, initialized,
      navigations, objects, constructed, determined>>

\* Agent::create(block), line 39: let id = Self(COUNT.load(Ordering::Relaxed));
AgentCreateLoad(t, block) ==
    /\ callers[t].pc = "idle"
    /\ Created < MaxCreates
    /\ callers' = [callers EXCEPT ![t] = [IdleCaller EXCEPT !.pc = "agent_loaded",
                                                            !.id = COUNT["AgentID"],
                                                            !.block = block]]
    /\ UNCHANGED <<COUNT, RELEVANT_AGENT, RELEVANT_REALM, returned, registryFrame>>

\* line 39: COUNT.fetch_add(1, Ordering::Relaxed); id
AgentCreateFetchAdd(t) ==
    /\ callers[t].pc = "agent_loaded"
    /\ COUNT' = [COUNT EXCEPT !["AgentID"] = fetch_add(@)]
    /\ callers' = [callers EXCEPT ![t].pc = "agent_added"]
    /\ UNCHANGED <<RELEVANT_AGENT, RELEVANT_REALM, returned, registryFrame>>

\* lines 40-42: RELEVANT_AGENT.lock().unwrap().insert(id, agent); id
AgentCreateInsert(t) ==
    /\ callers[t].pc = "agent_added"
    /\ LET agent == [id |-> callers[t].id, block |-> callers[t].block]
       IN /\ RELEVANT_AGENT' = MapInsert(RELEVANT_AGENT, agent.id, agent)
          /\ returned' = [returned EXCEPT !.agent = @ \cup {agent}]
    /\ callers' = [callers EXCEPT ![t] = IdleCaller]
    /\ UNCHANGED <<COUNT, RELEVANT_REALM, registryFrame>>

\* Realm::create(agent, None, None), line 97: the load of RealmID::default()
RealmLoad(t, agent) ==
    /\ callers[t].pc = "idle"
    /\ Created < MaxCreates
    /\ callers' = [callers EXCEPT ![t] = [IdleCaller EXCEPT !.pc = "realm_loaded",
                                                            !.id = COUNT["RealmID"],
                                                            !.agent = agent]]
    /\ UNCHANGED <<COUNT, RELEVANT_AGENT, RELEVANT_REALM, returned, registryFrame>>

\* lines 97-104: the fetch_add of RealmID::default(); the Realm is returned
RealmFetchAdd(t) ==
    /\ callers[t].pc = "realm_loaded"
    /\ COUNT' = [COUNT EXCEPT !["RealmID"] = fetch_add(@)]
    /\ callers' = [callers EXCEPT ![t].pc = "realm_created"]
    /\ UNCHANGED <<RELEVANT_AGENT, RELEVANT_REALM, returned, registryFrame>>

\* set_window_settings_object(.., None), line 125: the load of
\* EnvironmentID::default()
EnvironmentLoad(t) ==
    /\ callers[t].pc = "realm_created"
    /\ callers' = [callers EXCEPT ![t].pc = "environment_loaded",
                                  ![t].environment = COUNT["EnvironmentID"]]
    /\ UNCHANGED <<COUNT, RELEVANT_AGENT, RELEVANT_REALM, returned, registryFrame>>

\* line 125: the fetch_add of EnvironmentID::default()
EnvironmentFetchAdd(t) ==
    /\ callers[t].pc = "environment_loaded"
    /\ COUNT' = [COUNT EXCEPT !["EnvironmentID"] = fetch_add(@)]
    /\ callers' = [callers EXCEPT ![t].pc = "environment_added"]
    /\ UNCHANGED <<RELEVANT_AGENT, RELEVANT_REALM, returned, registryFrame>>

\* lines 129-140: the settings object is attached to the Realm the caller
\* owns, then RELEVANT_REALM.lock().unwrap().insert(id, self)
RealmInsert(t) ==
    /\ callers[t].pc = "environment_added"
    /\ LET settings_object == [id |-> callers[t].environment,
                               browsing_context |-> Absent, ready |-> FALSE]
           realm == [id |-> callers[t].id, agent |-> callers[t].agent,
                     global_object |-> Absent,
                     settings_object |-> Some(settings_object)]
       IN /\ RELEVANT_REALM' = MapInsert(RELEVANT_REALM, realm.id, realm)
          /\ returned' = [returned EXCEPT !.realm = @ \cup {realm}]
    /\ callers' = [callers EXCEPT ![t] = IdleCaller]
    /\ UNCHANGED <<COUNT, RELEVANT_AGENT, registryFrame>>

\* ------------------------------------------------------------------------
\* Object::new (object.rs)
\* ------------------------------------------------------------------------
\* the types T of the values handed to Object::new: the two the crate uses,
\* and &'static str
ValueTypes == {"NodeImpl", "WindowImpl", "&str"}

Values == {"x", "y"}

\* what one ExternRef::new(context, value) attempt does: it succeeds, or fails
\* with GcHeapOutOfMemory<T> carrying the value, or fails with another error
Attempts == {"ok", "oom", "other"}

\* Error::downcast::<GcHeapOutOfMemory<&str>>() of the error an attempt on a
\* value of type T returned: Ok only if the error is of exactly that type
downcast(T, e) == e = "oom" /\ T = "&str"

\* Object::new(context, value) with value of type T, when the first
\* ExternRef::new attempt ends as `first` and a second one would end as `second`
Object_new(T, value, first, second) ==
    IF first = "ok"
    THEN [attempts |-> 1, collections |-> 0, held |-> Some(value), error |-> Absent]
    ELSE IF downcast(T, first)
         THEN \* context.as_context_mut().gc(Some(&oom)); ExternRef::new(&mut context, inner)?
              IF second = "ok"
              THEN [attempts |-> 2, collections |-> 1, held |-> Some(value),
                    error |-> Absent]
              ELSE [attempts |-> 2, collections |-> 1, held |-> Absent,
                    error |-> Some(second)]
         ELSE \* Err(e) => return Err(e)
              [attempts |-> 1, collections |-> 0, held |-> Absent, error |-> Some(first)]

ObjectNew(T, value, first, second) ==
    /\ Len(objects) < MaxObjects
    /\ objects' = Append(objects, [type |-> T, value |-> value, first |-> first,
                                   second |-> second,
                                   call |-> Object_new(T, value, first, second)])
    /\ UNCHANGED <<groupVars, idVars, treeVars, RELEVANT_REALM, realms,
                   BROWSING_CONTEXT_SET, BROWSING_CONTEXT_GROUP_SET, windows, uuids,
                   documents, navigables, initialized, navigations, constructed, callers,
                   returned, determined>>

\* ------------------------------------------------------------------------
\* The host interface of Document and Element (dom/document.rs, dom/element.rs)
\* ------------------------------------------------------------------------
\* ElementImpl::new: the attribute list is Vec::new(), and nothing writes it
ElementImpl_new == [attribute_list |-> <<>>]

\* Element::has_attributes
has_attributes(element) == element.attribute_list # <<>>

\* <WindowStates as HostDocument>::new: the body is todo!(), so the call
\* panics and returns no Document
HostDocument_new(w) == [w |-> w, panicked |-> TRUE, document |-> Absent]

HostDocumentNew ==
    /\ Len(constructed) < MaxHostCalls
    /\ \E r \in {HostDocument_new(World)} :
          /\ constructed' = Append(constructed,
                                [panicked |-> r.panicked, document |-> r.document])
          /\ Commit(r.w)
    /\ UNCHANGED <<realms, navigables, initialized, navigations, determined>>

\* ------------------------------------------------------------------------
\* determin_origin called with every kind of argument (browsing_context.rs)
\* ------------------------------------------------------------------------
\* bitflags SandboxingFlag: a value is a set of flags
SandboxingFlag == SUBSET {"ORIGIN_BROWSING_CONTEXT", "NAVIGATION_BROWSING_CONTEXT"}

\* the creator origins handed to determin_origin, besides origins returned by
\* earlier calls
CreatorOrigins == {Tuple("https", "b.test", 80), Opaque(1)}

DeterminOrigin(url, flags, origin) ==
    /\ Len(determined) < MaxDetermined
    /\ \E r \in {determin_origin(World, url, "ORIGIN_BROWSING_CONTEXT" \in flags, origin)} :
          /\ determined' = Append(determined, [url |-> url, flags |-> flags,
                                               origin |-> origin, returned |-> r.origin])
          /\ Commit(r.w)
    /\ UNCHANGED <<realms, navigables, initialized, navigations, constructed>>

\* ------------------------------------------------------------------------
\* Specifications
\* ------------------------------------------------------------------------
Init == InitGroup /\ InitIds /\ InitTree /\ InitPage

\* a group as BrowsingContextGroup::default() makes it
InitDefaultGroup == Init /\ isolation_mode = "None"


Next == \E origin \in Origins, oac \in BOOLEAN : WindowAgent(origin, oac)

\* window_agent calls on one group
Spec == Init /\ [][Next]_vars

NextSeqIds == \E kind \in IDKinds : Default(kind)

\* IDs allocated one after another
SpecSeqIds == InitDefaultGroup /\ [][NextSeqIds]_vars

NextConcIds ==
    \/ \E t \in Threads, kind \in IDKinds : Load(t, kind)
    \/ \E t \in Threads : FetchAdd(t)

\* IDs allocated by several threads at once
SpecConcIds == InitDefaultGroup /\ [][NextConcIds]_vars

NextTree ==
    \/ \E self \in Nodes, node \in Nodes : AppendChild(self, node)
    \/ \E node \in Nodes, document \in Documents \cup {Nil} : Adopt(node, document)
    \/ \E self \in Nodes, node \in Nodes, index \in 0..(MaxOps + 1) :
            InsertChild(self, index, node)
    \/ \E self \in Nodes, node \in Nodes, child \in Nodes \cup {Nil} :
            Insert(self, node, child)
    \/ \E self \in Nodes, node \in Nodes, child \in Nodes \cup {Nil} :
            PreInsert(self, node, child)

NextRealm ==
    \/ \E agent \in AgentIDs, with_window \in BOOLEAN : RealmCreate(agent, with_window)
    \/ \E self \in realms,
          environment \in {Absent} \cup {Some(e) : e \in ReservedEnvironments} :
            SetWindowSettingsObject(self, environment)
\* realms created and finalised
SpecRealm == InitDefaultGroup /\ [][NextRealm]_vars

NextActive ==
    \/ NewTopBrowsingContext
    \/ \E realm \in 0..MaxRealms : DocumentNew(realm)
    \/ \E self \in DOMAIN documents, context \in DOMAIN BROWSING_CONTEXT_SET,
          visibility \in BOOLEAN :
            DocumentActive(self, context, visibility)

\* browsing contexts and documents created, documents made active
SpecActive == InitDefaultGroup /\ [][NextActive]_vars

NextNav ==
    \/ \E target \in Targets : CreateTopTraversable(target)
    \/ \E self \in DOMAIN documents, context \in DOMAIN BROWSING_CONTEXT_SET,
          visibility \in BOOLEAN :
            DocumentActive(self, context, visibility)

\* top-level traversables created and their documents made active
SpecNav == InitDefaultGroup /\ [][NextNav]_vars

NextNavigate ==
    \/ \E target \in Targets : CreateTopTraversable(target)
    \/ \E i \in DOMAIN navigables, url \in Urls,
          history_handling \in NavigationHistoryBehavior :
            Navigate(i, url, history_handling)

\* top-level traversables created and navigated
SpecNavigate == InitDefaultGroup /\ [][NextNavigate]_vars

NextObject ==
    \E T \in ValueTypes, value \in Values, first \in Attempts, second \in Attempts :
        ObjectNew(T, value, first, second)

NextRegistry ==
    \/ \E t \in Threads, block \in BOOLEAN : AgentCreateLoad(t, block)
    \/ \E t \in Threads : AgentCreateFetchAdd(t)
    \/ \E t \in Threads : AgentCreateInsert(t)
    \/ \E t \in Threads, agent \in AgentIDs : RealmLoad(t, agent)
    \/ \E t \in Threads : RealmFetchAdd(t)
    \/ \E t \in Threads : EnvironmentLoad(t)
    \/ \E t \in Threads : EnvironmentFetchAdd(t)
    \/ \E t \in Threads : RealmInsert(t)

\* Agents and Realms registered by several threads at once
SpecRegistry == InitDefaultGroup /\ [][NextRegistry]_vars

NextHost == NextObject \/ HostDocumentNew

\* objects allocated, Documents constructed through the host interface
SpecHost == InitDefaultGroup /\ [][NextHost]_vars

\* objects allocated
SpecObject == InitDefaultGroup /\ [][NextObject]_vars

\* tree operations on the nodes of one store
SpecTree == InitDefaultGroup /\ [][NextTree]_vars

NextInsert ==
    \/ \E self \in Nodes, node \in Nodes, child \in Nodes \cup {Nil} :
            Insert(self, node, child)
    \/ \E self \in Nodes, node \in Nodes, child \in Nodes \cup {Nil} :
            PreInsert(self, node, child)

\* insert and pre_insert calls on the nodes of one store
SpecInsert == InitDefaultGroup /\ [][NextInsert]_vars

NextOrigin ==
    \E url \in {Absent} \cup {Some(u) : u \in DOMUrls},
       flags \in SandboxingFlag,
       origin \in {Absent} \cup {Some(o) : o \in CreatorOrigins}
                           \cup {Some(determined[i].returned) : i \in DOMAIN determined} :
        DeterminOrigin(url, flags, origin)

\* origins determined one after another
SpecOrigin == InitDefaultGroup /\ [][NextOrigin]_vars

NextReady ==
    \/ \E t \in Threads, agent \in AgentIDs : RealmLoad(t, agent)
    \/ \E t \in Threads : RealmFetchAdd(t)
    \/ \E t \in Threads : EnvironmentLoad(t)
    \/ \E t \in Threads : EnvironmentFetchAdd(t)
    \/ \E t \in Threads : RealmInsert(t)
    \/ NewTopBrowsingContext
    \/ \E self \in DOMAIN documents, context \in DOMAIN BROWSING_CONTEXT_SET,
          visibility \in BOOLEAN :
            DocumentActive(self, context, visibility)

\* Realms created and registered by several threads at once while browsing
\* contexts are created and documents made active
SpecReady == InitDefaultGroup /\ [][NextReady]_vars

\* append_child called for each node of `nodes` in turn
RECURSIVE append_children(_, _, _)
append_children(st, self, nodes) ==
    IF nodes = <<>>
    THEN st
    ELSE append_children(append_child(st, self, Head(nodes)), self, Tail(nodes))

\* a store in which new nodes 2, 3, .. have been appended to the new node 1,
\* so that positional inserts start from a child sequence of some length
InitChildren ==
    /\ InitGroup /\ isolation_mode = "None"
    /\ InitIds
    /\ InitPage
    /\ panicked = FALSE
    /\ wrapped = FALSE
    /\ sets = [n \in Nodes |-> 0]
    /\ steps = 0
    /\ \E k \in 0..(NumNodes - 2) :
         store = append_children(
                    St([n \in Nodes |-> IF n \in Documents
                                        THEN [new_with_type EXCEPT !.node_document = n]
                                        ELSE new_with_type],
                       FALSE, FALSE, sets),
                    1, [i \in 1..k |-> i + 1]).nodes

NextInsertChild ==
    \E self \in Nodes, node \in Nodes, index \in 0..(NumNodes + MaxOps) :
        InsertChild(self, index, node)

\* insert_child calls on a node that already has children
SpecInsertChild == InitChildren /\ [][NextInsertChild]_vars

\* ------------------------------------------------------------------------
\* Properties of window_agent (checked under Spec)
\* ------------------------------------------------------------------------
\* two tuple origins with the same scheme and host that differ only in port
PortOnly(a, b) ==
    /\ a.kind = "Tuple" /\ b.kind = "Tuple"
    /\ a.scheme = b.scheme /\ a.host = b.host
    /\ a.port # b.port

\* the first two calls on a fresh group with isolation mode None ask for two
\* origins differing only in port, both with the OAC flag f
FirstTwoPortOnly(f) ==
    /\ isolation_mode = "None"
    /\ Len(calls) >= 2
    /\ PortOnly(calls[1].origin, calls[2].origin)
    /\ calls[1].oac = f /\ calls[2].oac = f

\* C1: in a fresh group with isolation mode None, window_agent(O1, false) and
\* window_agent(O2, false) return the same AgentID when O1 and O2 are tuple
\* origins with the same scheme and host that differ only in port.
C1_SiteCollapsing ==
    FirstTwoPortOnly(FALSE) => calls[1].agent = calls[2].agent

\* C2: in a fresh group with isolation mode None, window_agent(O1, true) and
\* window_agent(O2, true) return different AgentIDs when O1 and O2 are tuple
\* origins with the same scheme and host that differ only in port.
C2_OriginKeying ==
    FirstTwoPortOnly(TRUE) => calls[1].agent # calls[2].agent

C2_Witness ==
    /\ FirstTwoPortOnly(TRUE)
    /\ DOMAIN agent_cluster = {calls[1].origin, calls[2].origin}

\* C3: in a group whose isolation mode is Logical or Concrete every
\* window_agent(O, oac) call resolves to key = O: the returned agent is the one
\* of the cluster stored under O itself, and two origins differing only in
\* port get different AgentIDs even with oac = false.
C3_IsolationOverride ==
    isolation_mode # "None" =>
        /\ \A i \in DOMAIN calls :
            /\ calls[i].key = calls[i].origin
            /\ calls[i].origin \in DOMAIN agent_cluster
            /\ agent_cluster[calls[i].origin].agent = calls[i].agent
        /\ \A i, j \in DOMAIN calls :
            PortOnly(calls[i].origin, calls[j].origin) => calls[i].agent # calls[j].agent

\* C4: once window_agent has been called for an origin O, every later
\* window_agent(O, f) call on the group returns the same AgentID, whatever the
\* OAC flags and whatever calls for other origins happen in between.
C4_StickyKeying ==
    \A i, j \in DOMAIN calls :
        calls[i].origin = calls[j].origin => calls[i].agent = calls[j].agent

C4_Witness ==
    /\ isolation_mode # "None"
    /\ Len(calls) >= 3
    /\ calls[1].origin = calls[3].origin
    /\ calls[1].oac # calls[3].oac
    /\ calls[2].origin # calls[1].origin
    /\ calls[1].origin # obtain_site(calls[1].origin)
    /\ calls[1].agent = calls[3].agent

\* C5: in a group with isolation mode None, a window_agent(O, false) call that
\* directly follows a window_agent(O, false) call returns the same AgentID and
\* creates no AgentCluster and no Agent.
C5_ClusterKeyStability ==
    [][ ( /\ isolation_mode = "None"
          /\ Len(calls) >= 1
          /\ Len(calls') = Len(calls) + 1
          /\ calls'[Len(calls')].origin = calls[Len(calls)].origin
          /\ ~calls[Len(calls)].oac
          /\ ~calls'[Len(calls')].oac )
        => ( /\ calls'[Len(calls')].agent = calls[Len(calls)].agent
             /\ Cardinality(DOMAIN agent_cluster') = Cardinality(DOMAIN agent_cluster)
             /\ agent_cluster' = agent_cluster
             /\ COUNT' = COUNT
             /\ RELEVANT_AGENT' = RELEVANT_AGENT ) ]_vars

C5_Witness ==
    /\ isolation_mode = "None"
    /\ Len(calls) = 2
    /\ calls[1].origin = calls[2].origin
    /\ ~calls[1].oac /\ ~calls[2].oac
    /\ calls[1].agent = calls[2].agent
    /\ Cardinality(DOMAIN agent_cluster) = 1
    /\ COUNT["AgentID"] = 1

\* C6: a new group's agent-cluster map is empty; a window_agent call adds at
\* most one entry, only under the computed key and only when that key had no
\* entry, and never removes or changes an existing entry.
C6_OneClusterPerKey ==
    /\ agent_cluster = EmptyMap
    /\ [][ /\ \A k \in DOMAIN agent_cluster :
                k \in DOMAIN agent_cluster' /\ agent_cluster'[k] = agent_cluster[k]
           /\ Cardinality(DOMAIN agent_cluster') <= Cardinality(DOMAIN agent_cluster) + 1
           /\ \A k \in (DOMAIN agent_cluster') \ (DOMAIN agent_cluster) :
                k = calls'[Len(calls')].key ]_vars

C6_Witness ==
    /\ Cardinality(DOMAIN agent_cluster) = 2
    /\ Len(calls) = 3
    /\ \A i \in DOMAIN calls : agent_cluster[calls[i].key].agent = calls[i].agent

\* ------------------------------------------------------------------------
\* Properties of ID allocation
\* ------------------------------------------------------------------------
\* C7 (SpecSeqIds): the IDs of each kind allocated one after another are
\* strictly increasing in allocation order, hence pairwise distinct, and the
\* counter of a kind has advanced exactly once per ID of that kind, so an
\* allocation of one kind never advances the counter of another kind.
C7_SequentialIds ==
    \A k \in IDKinds :
        /\ \A i, j \in DOMAIN ids[k] : i < j => ids[k][i] < ids[k][j]
        /\ COUNT[k] = Len(ids[k])

C7_Witness ==
    /\ Len(ids["AgentID"]) = 3
    /\ Len(ids["SessionHistoryID"]) = 2
    /\ Len(ids["RealmID"]) = 0

\* C8 (SpecConcIds): when threads allocate IDs of one kind at the same time,
\* no two allocations return the same ID.
C8_ConcurrentIds ==
    \A k \in IDKinds :
        \A i, j \in DOMAIN ids[k] : i # j => ids[k][i] # ids[k][j]

\* ------------------------------------------------------------------------
\* Properties of the node tree (checked under SpecTree)
\* ------------------------------------------------------------------------
\* a node as created: no siblings, no children, in no child sequence
Fresh(n) ==
    /\ store[n].previous_sibling = Nil
    /\ store[n].next_sibling = Nil
    /\ store[n].child_nodes = <<>>
    /\ \A p \in Nodes : \A i \in DOMAIN store[p].child_nodes : store[p].child_nodes[i] # n

\* C9: after any sequence of append_child, insert_child, insert and pre_insert
\* calls, for every parent with child sequence [c0..cn-1]: ci.next_sibling is
\* ci+1, ci+1.previous_sibling is ci, c0 has no previous sibling, cn-1 has no
\* next sibling; and whenever A.next_sibling is B, B.previous_sibling is A.
C9_SiblingConsistency ==
    ~panicked =>
        /\ \A p \in Nodes :
            LET cn == store[p].child_nodes
            IN \A i \in DOMAIN cn :
                /\ store[cn[i]].next_sibling = (IF i < Len(cn) THEN cn[i + 1] ELSE Nil)
                /\ store[cn[i]].previous_sibling = (IF i > 1 THEN cn[i - 1] ELSE Nil)
        /\ \A a \in Nodes :
            store[a].next_sibling # Nil => store[store[a].next_sibling].previous_sibling = a

\* C10: appending a fresh node to a parent puts it at the end of the child
\* sequence with no next sibling; if the parent had a last child L then
\* L.next_sibling = node and node.previous_sibling = L, otherwise the node has
\* no previous sibling; no other node's previous sibling changes. (Appending
\* fresh B then fresh C to an empty A therefore yields [B, C], B.next = C,
\* C.previous = B, B.previous and C.next absent.)
C10_Append ==
    [][ \A n \in Nodes, p \in Nodes :
          (Fresh(n) /\ AppendChild(p, n)) =>
            LET cn == store[p].child_nodes
            IN /\ store'[p].child_nodes = Append(cn, n)
               /\ store'[n].next_sibling = Nil
               /\ IF cn = <<>>
                  THEN store'[n].previous_sibling = Nil
                  ELSE /\ store'[cn[Len(cn)]].next_sibling = n
                       /\ store'[n].previous_sibling = cn[Len(cn)]
               /\ \A m \in Nodes \ {n} :
                    store'[m].previous_sibling = store[m].previous_sibling ]_vars

C10_Witness ==
    /\ steps = 2
    /\ \E a, b, c \in Nodes :
        /\ a # b /\ a # c /\ b # c
        /\ store[a].child_nodes = <<b, c>>
        /\ store[b].next_sibling = c
        /\ store[c].previous_sibling = b
        /\ store[b].previous_sibling = Nil
        /\ store[c].next_sibling = Nil

\* C11 (SpecInsertChild): inserting a fresh node Y at an interior index i of a
\* parent's child sequence (a child before it and a child after it, as index 1
\* of [X, Z]) yields the sequence with Y at position i, and
\* X.next_sibling = Y, Y.previous_sibling = X, Y.next_sibling = Z,
\* Z.previous_sibling = Y for the children X before and Z after it.
C11_PositionalInsert ==
    [][ \A p \in Nodes, n \in Nodes, i \in 1..(NumNodes + MaxOps) :
          LET cn == store[p].child_nodes
          IN (Fresh(n) /\ i <= Len(cn) - 1 /\ InsertChild(p, i, n)) =>
                /\ ~panicked'
                /\ store'[p].child_nodes =
                        SubSeq(cn, 1, i) \o <<n>> \o SubSeq(cn, i + 1, Len(cn))
                /\ store'[cn[i]].next_sibling = n
                /\ store'[n].previous_sibling = cn[i]
                /\ store'[n].next_sibling = cn[i + 1]
                /\ store'[cn[i + 1]].previous_sibling = n ]_vars

C11_Witness ==
    /\ steps = 1
    /\ \E y \in Nodes \ {1, 2, 3} :
        /\ store[1].child_nodes = <<2, y, 3>>
        /\ store[2].next_sibling = y
        /\ store[y].previous_sibling = 2
        /\ store[y].next_sibling = 3
        /\ store[3].previous_sibling = y

\* C12 (SpecTree): adopting a node whose node document is D1 into a document
\* D2 that is a different handle sets the node's node document to D2, with
\* exactly one assignment of the field.
C12_AdoptDistinct ==
    [][ \A n \in Nodes, d \in Documents :
          ( /\ store[n].node_document # Nil
            /\ store[n].node_document # d
            /\ Adopt(n, d) )
          => ( /\ store'[n].node_document = d
               /\ sets'[n] = sets[n] + 1 ) ]_vars

\* C13 (SpecTree): adopting a node into the document that already is its node
\* document assigns the node-document field not at all and changes no other
\* field of the node.
C13_AdoptSame ==
    [][ \A n \in Nodes, d \in Documents :
          (store[n].node_document = d /\ Adopt(n, d))
          => (sets'[n] = sets[n] /\ store'[n] = store[n]) ]_vars

\* C14 (SpecTree): append_child and insert_child leave the node document of
\* every node (parent, inserted node, siblings) unchanged and never assign it;
\* a step that assigns a node's node document is a call of adopt on that node,
\* made directly or through insert / pre_insert.
C14_NodeDocumentFrame ==
    [][ \/ /\ sets' = sets
           /\ \A m \in Nodes : store'[m].node_document = store[m].node_document
        \/ /\ ~ \E p \in Nodes, n \in Nodes, i \in 0..(MaxOps + 1) :
                    AppendChild(p, n) \/ InsertChild(p, i, n)
           /\ \A m \in Nodes :
                (sets'[m] # sets[m] \/ store'[m].node_document # store[m].node_document)
                => \/ \E d \in Documents \cup {Nil} : Adopt(m, d)
                   \/ \E self \in Nodes, child \in Nodes \cup {Nil} :
                        Insert(self, m, child) \/ PreInsert(self, m, child) ]_vars

C14_Witness ==
    /\ steps = 2
    /\ sets = [n \in Nodes |-> 0]
    /\ \E e \in Nodes \ Documents, f \in Nodes \ Documents :
        /\ e # f
        /\ store[1].child_nodes = <<e, f>>
        /\ store[1].node_document = 1
        /\ store[e].node_document = Nil
        /\ store[f].node_document = Nil

\* ------------------------------------------------------------------------
\* Properties of realms and environments (checked under SpecRealm)
\* ------------------------------------------------------------------------
\* C15: a Realm returned by Realm::create is not in the Realm registry and has
\* no settings object; set_window_settings_object on it puts it into the
\* registry under its own RealmID, with a settings object attached whose ready
\* flag is false; Realm::create leaves the registry alone, and a RealmID enters
\* the registry only by the finalisation of the realm that has it.
C15_TwoPhaseRealm ==
    /\ [](\A r \in realms :
            r.id \notin DOMAIN RELEVANT_REALM /\ r.settings_object = Absent)
    /\ [][ /\ \A agent \in AgentIDs, with_window \in BOOLEAN :
                RealmCreate(agent, with_window) => RELEVANT_REALM' = RELEVANT_REALM
           /\ \A self \in realms,
                 environment \in {Absent} \cup {Some(e) : e \in ReservedEnvironments} :
                SetWindowSettingsObject(self, environment) =>
                    /\ DOMAIN RELEVANT_REALM' = DOMAIN RELEVANT_REALM \cup {self.id}
                    /\ LET x == RELEVANT_REALM'[self.id]
                       IN /\ x.id = self.id
                          /\ x.agent = self.agent
                          /\ x.global_object = self.global_object
                          /\ x.settings_object # Absent
                          /\ x.settings_object[1].ready = FALSE
           /\ \A id \in DOMAIN RELEVANT_REALM' \ DOMAIN RELEVANT_REALM :
                \E self \in realms : self.id = id /\ self \notin realms' ]_vars

C15_Witness ==
    /\ \E r \in realms : r.id \notin DOMAIN RELEVANT_REALM
    /\ \E id \in DOMAIN RELEVANT_REALM :
        /\ RELEVANT_REALM[id].id = id
        /\ RELEVANT_REALM[id].settings_object # Absent
        /\ RELEVANT_REALM[id].settings_object[1].ready = FALSE

\* C16: set_window_settings_object given a reserved environment E attaches a
\* settings object with E's ID and E's browsing-context link and allocates no
\* EnvironmentID; given no environment it attaches a settings object with a
\* newly allocated EnvironmentID and no browsing-context link.
C16_EnvironmentInheritance ==
    [][ \A self \in realms :
          /\ \A e \in ReservedEnvironments :
                SetWindowSettingsObject(self, Some(e)) =>
                    LET so == RELEVANT_REALM'[self.id].settings_object
                    IN /\ so # Absent
                       /\ so[1].id = e.id
                       /\ so[1].browsing_context = e.browsing_context
                       /\ COUNT' = COUNT
          /\ SetWindowSettingsObject(self, Absent) =>
                LET so == RELEVANT_REALM'[self.id].settings_object
                IN /\ so # Absent
                   /\ so[1].id = COUNT["EnvironmentID"]
                   /\ COUNT'["EnvironmentID"] = COUNT["EnvironmentID"] + 1
                   /\ so[1].browsing_context = Absent ]_vars

C16_Witness ==
    /\ COUNT["EnvironmentID"] = 1
    /\ \E a, b \in DOMAIN RELEVANT_REALM :
        /\ a # b
        /\ RELEVANT_REALM[a].settings_object[1].browsing_context = Some(0)
        /\ RELEVANT_REALM[a].settings_object[1].id = 1
        /\ RELEVANT_REALM[b].settings_object[1].browsing_context = Absent
        /\ RELEVANT_REALM[b].settings_object[1].id = 0

\* ------------------------------------------------------------------------
\* Properties of Document::active (checked under SpecActive)
\* ------------------------------------------------------------------------
\* C17: Document::active(context, v) on a document whose realm R is in the
\* registry with a settings object leaves R's ready flag true, the context's
\* window slot holding R's global object and the document's visibility equal
\* to v, and changes no other realm of the registry.
C17_MakeActive ==
    [][ \A d \in DOMAIN documents, c \in DOMAIN BROWSING_CONTEXT_SET, v \in BOOLEAN :
          LET R == documents[d].realm
          IN ( /\ R \in DOMAIN RELEVANT_REALM
               /\ RELEVANT_REALM[R].settings_object # Absent
               /\ DocumentActive(d, c, v) )
             => ( /\ DOMAIN RELEVANT_REALM' = DOMAIN RELEVANT_REALM
                  /\ RELEVANT_REALM'[R].settings_object[1].ready = TRUE
                  /\ BROWSING_CONTEXT_SET'[c].window = RELEVANT_REALM[R].global_object
                  /\ documents'[d].visibility = v
                  /\ \A id \in DOMAIN RELEVANT_REALM \ {R} :
                        RELEVANT_REALM'[id] = RELEVANT_REALM[id] ) ]_vars

C17_Witness ==
    \E a, b \in DOMAIN RELEVANT_REALM, c \in DOMAIN BROWSING_CONTEXT_SET,
       d \in DOMAIN documents :
        /\ a # b
        /\ documents[d].realm = a
        /\ documents[d].visibility = TRUE
        /\ RELEVANT_REALM[a].settings_object[1].ready = TRUE
        /\ RELEVANT_REALM[b].settings_object[1].ready = FALSE
        /\ RELEVANT_REALM[a].global_object # Absent
        /\ BROWSING_CONTEXT_SET[c].window = RELEVANT_REALM[a].global_object

\* C18: Document::active on a document whose RealmID is not in the registry
\* runs to its end (the visibility is stored, the context's window slot is
\* set to none) and leaves the Realm registry unchanged.
C18_UnknownRealm ==
    [][ \A d \in DOMAIN documents, c \in DOMAIN BROWSING_CONTEXT_SET, v \in BOOLEAN :
          (documents[d].realm \notin DOMAIN RELEVANT_REALM /\ DocumentActive(d, c, v))
          => ( /\ RELEVANT_REALM' = RELEVANT_REALM
               /\ BROWSING_CONTEXT_SET'[c].window = Absent
               /\ documents'[d].visibility = v ) ]_vars

C18_Witness ==
    \E d \in DOMAIN documents :
        /\ documents[d].realm \notin DOMAIN RELEVANT_REALM
        /\ documents[d].visibility = TRUE
        /\ DOMAIN RELEVANT_REALM # {}

\* ------------------------------------------------------------------------
\* Properties of navigables (checked under SpecNav)
\* ------------------------------------------------------------------------
\* the session history entries of the navigable's traversable
history_entries(navigable) == navigable.traversable[1].history_entries

\* C19: every entry as initialize returned it has step = None; every entry
\* stored by create_top_traversable has step = Some(0); a stored entry whose
\* step is set keeps that step in every later state.
C19_SessionHistoryStep ==
    /\ [](/\ \A i \in DOMAIN initialized : initialized[i].step = Absent
          /\ \A i \in DOMAIN navigables :
                /\ navigables[i].traversable # Absent
                /\ \A id \in DOMAIN history_entries(navigables[i]) :
                        history_entries(navigables[i])[id].step = Some(0))
    /\ [][ \A i \in DOMAIN navigables :
            /\ i \in DOMAIN navigables'
            /\ \A id \in DOMAIN history_entries(navigables[i]) :
                history_entries(navigables[i])[id].step # Absent =>
                    /\ id \in DOMAIN history_entries(navigables'[i])
                    /\ history_entries(navigables'[i])[id].step =
                            history_entries(navigables[i])[id].step ]_vars

C19_Witness ==
    /\ Len(navigables) = 2
    /\ Len(initialized) = 2
    /\ \A i \in DOMAIN navigables :
        /\ initialized[i].step = Absent
        /\ initialized[i].id \in DOMAIN history_entries(navigables[i])
        /\ history_entries(navigables[i])[initialized[i].id].step = Some(0)

\* C20: create_top_traversable with no opener returns a Navigable without
\* parent that has a Traversable with exactly one entry; its current and its
\* active entry are that entry's ID; the entry's DocumentState has a document,
\* the origin of that document, the target name given and no initiator origin.
C20_TopTraversableShape ==
    [][ \A target \in Targets :
          CreateTopTraversable(target) =>
            LET navigable == navigables'[Len(navigables')]
            IN /\ navigable.parent = Absent
               /\ navigable.traversable # Absent
               /\ Cardinality(DOMAIN history_entries(navigable)) = 1
               /\ \A id \in DOMAIN history_entries(navigable) :
                    LET entry == history_entries(navigable)[id]
                    IN /\ entry.id = id
                       /\ navigable.current_entry = Some(id)
                       /\ navigable.active_entry = Some(id)
                       /\ entry.state.document # Absent
                       /\ entry.state.document[1] \in DOMAIN documents'
                       /\ entry.state.origin =
                            Some(documents'[entry.state.document[1]].origin)
                       /\ entry.state.target = target
                       /\ entry.state.initiator_origin = Absent ]_vars

C20_Witness ==
    /\ Len(navigables) = 2
    /\ navigables[1].parent = Absent
    /\ navigables[2].active_entry = Some(1)
    /\ navigables[2].current_entry = Some(1)
    /\ DOMAIN history_entries(navigables[2]) = {1}
    /\ history_entries(navigables[2])[1].state.target = "main"
    /\ history_entries(navigables[2])[1].state.document = Some(2)
    /\ history_entries(navigables[2])[1].state.origin = Some(documents[2].origin)
    /\ history_entries(navigables[1])[0].state.target = ""

\* the Document of the navigable's active session history entry
active_document(navigable) ==
    history_entries(navigable)[navigable.active_entry[1]].state.document[1]

C22_NavigateFailsLoudly ==
    \A k \in DOMAIN navigations : navigations[k].panicked

\* ------------------------------------------------------------------------
\* Properties of Object::new (checked under SpecObject)
\* ------------------------------------------------------------------------
\* C23: Object::new makes at most two allocation attempts and at most one
\* collection; a first attempt failing with heap out-of-memory is followed by
\* exactly one collection and one retry with the same value, whose error, if
\* it fails, is returned; a first failure of another kind is returned without
\* collection or retry; on success the handle holds the given value.
C23_AllocationRetry ==
    \A k \in DOMAIN objects :
        LET o == objects[k]
        IN /\ o.call.attempts <= 2
           /\ o.call.collections <= 1
           /\ o.first = "ok" =>
                /\ o.call.attempts = 1 /\ o.call.collections = 0
                /\ o.call.held = Some(o.value)
           /\ o.first = "oom" =>
                /\ o.call.attempts = 2 /\ o.call.collections = 1
                /\ o.second = "ok" => o.call.held = Some(o.value)
                /\ o.second # "ok" => o.call.error = Some(o.second)
           /\ o.first = "other" =>
                /\ o.call.attempts = 1 /\ o.call.collections = 0
                /\ o.call.error = Some("other")

\* ------------------------------------------------------------------------
\* Properties of the host interface (checked under SpecHost)
\* ------------------------------------------------------------------------
\* C24: a call of the host interface's Document constructor returns a
\* Document that has a document element, and that element has no attributes.
C24_HostDocument ==
    \A k \in DOMAIN constructed :
        /\ ~constructed[k].panicked
        /\ constructed[k].document # Absent
        /\ documents[constructed[k].document[1]].document_element # Absent
        /\ ~has_attributes(ElementImpl_new)

\* ------------------------------------------------------------------------
\* Further properties of window_agent (checked under Spec)
\* ------------------------------------------------------------------------
\* C25: two window_agent requests for the same origin O on one group that
\* carry different OAC flags, made in either order, resolve to the same key
\* and return the same AgentID, the one of the cluster stored under that key;
\* when they are the first two requests on the group, the group ends with
\* exactly one AgentCluster and one Agent. Which key it is (O or site(O)) is
\* left open.
C25_RacingKeys ==
    /\ \A i, j \in DOMAIN calls :
        (calls[i].origin = calls[j].origin /\ calls[i].oac # calls[j].oac) =>
            /\ calls[i].agent = calls[j].agent
            /\ calls[i].key = calls[j].key
            /\ calls[i].key \in {calls[i].origin, obtain_site(calls[i].origin)}
            /\ calls[i].key \in DOMAIN agent_cluster
            /\ agent_cluster[calls[i].key].agent = calls[i].agent
    /\ ( /\ Len(calls) = 2
         /\ calls[1].origin = calls[2].origin
         /\ calls[1].oac # calls[2].oac )
       => ( /\ Cardinality(DOMAIN agent_cluster) = 1
            /\ Cardinality(DOMAIN RELEVANT_AGENT) = 1 )

C25_Witness ==
    /\ isolation_mode = "Logical"
    /\ Len(calls) = 2
    /\ calls[1].origin = calls[2].origin
    /\ calls[1].origin # obtain_site(calls[1].origin)
    /\ ~calls[1].oac /\ calls[2].oac
    /\ calls[2].key = obtain_site(calls[1].origin)
    /\ calls[1].agent = calls[2].agent
    /\ Cardinality(DOMAIN agent_cluster) = 1

\* ------------------------------------------------------------------------
\* Properties of the registries (checked under SpecRegistry)
\* ------------------------------------------------------------------------
\* C26: once Agent::create or set_window_settings_object has returned in one
\* thread, a lookup of that ID under the registry lock finds the Agent or the
\* Realm the call registered, in every later state; and every Realm found in
\* the registry has its settings object attached.
C26_RegistryVisibility ==
    /\ \A a \in returned.agent : lookup(RELEVANT_AGENT, a.id) = Some(a)
    /\ \A r \in returned.realm : lookup(RELEVANT_REALM, r.id) = Some(r)
    /\ \A id \in DOMAIN RELEVANT_REALM :
            lookup(RELEVANT_REALM, id)[1].settings_object # Absent

\* the first window_agent call made for the origin of call i
FirstCallFor(i) ==
    CHOOSE j \in DOMAIN calls :
        /\ calls[j].origin = calls[i].origin
        /\ \A k \in 1..(j - 1) : calls[k].origin # calls[i].origin

\* C27: in a group with isolation mode None, every origin O window_agent has
\* been called for has an entry in the historical key map, written by the
\* first call for O (O itself when that call's oac was true, site(O) when it
\* was false) and never overwritten by later calls; it is the key the calls
\* for O look the cluster up with.
C27_HistoricalKeyCaching ==
    isolation_mode = "None" =>
        \A i \in DOMAIN calls :
            LET O == calls[i].origin
            IN /\ O \in DOMAIN historical_agent_cluster
               /\ historical_agent_cluster[O] =
                    (IF calls[FirstCallFor(i)].oac THEN O ELSE obtain_site(O))
               /\ calls[i].key = historical_agent_cluster[O]

\* ------------------------------------------------------------------------
\* Further properties of the node tree
\* ------------------------------------------------------------------------
\* C28 (SpecInsertChild): for a parent with n >= 1 children and every index i
\* with 0 <= i <= n, insert_child(i, node) of a fresh node completes without
\* arithmetic overflow or panic and places node at position i; for i = 0 node
\* becomes the first child, node.next_sibling is the former first child, that
\* child's previous_sibling is node, and node has no previous sibling.
C28_InsertBeforeFirst ==
    [][ \A p \in Nodes, n \in Nodes, i \in 0..(NumNodes + MaxOps) :
          LET cn == store[p].child_nodes
          IN (Fresh(n) /\ Len(cn) >= 1 /\ i <= Len(cn) /\ InsertChild(p, i, n)) =>
                /\ ~panicked'
                /\ wrapped' = wrapped
                /\ store'[p].child_nodes = VecInsert(cn, i, n)
                /\ i = 0 =>
                    /\ store'[n].next_sibling = cn[1]
                    /\ store'[cn[1]].previous_sibling = n
                    /\ store'[n].previous_sibling = Nil ]_vars

\* C29 (SpecTree): pre_insert(node, child) with child the same handle as node
\* never makes node's next_sibling point at node, and afterwards the parent's
\* child sequence contains node exactly once.
C29_PreInsertBeforeItself ==
    [][ \A p \in Nodes, n \in Nodes :
          PreInsert(p, n, n) =>
            /\ ~panicked'
            /\ store'[n].next_sibling # n
            /\ Cardinality({i \in DOMAIN store'[p].child_nodes :
                                store'[p].child_nodes[i] = n}) = 1 ]_vars

\* C30 (SpecTree): when insert or pre_insert of a node into a parent whose
\* node document is D returns, the node's node document is D, whatever it was
\* before (another document, or none as for a new Element, which is the case
\* of the html, head and body nodes populate_hhb inserts).
C30_InsertAdopts ==
    [][ \A p \in Nodes, n \in Nodes, c \in Nodes \cup {Nil} :
          ( /\ n # p
            /\ store[p].node_document # Nil
            /\ Insert(p, n, c) \/ PreInsert(p, n, c)
            /\ ~panicked' )
          => store'[n].node_document = store[p].node_document ]_vars


C32_NewClusterContents ==
    [][ \A K \in (DOMAIN agent_cluster') \ (DOMAIN agent_cluster) :
          LET cluster == agent_cluster'[K]
              call == calls'[Len(calls')]
          IN /\ call.key = K
             /\ call.agent = cluster.agent
             /\ cluster.isolation_mode = isolation_mode
             /\ cluster.origin_keyed = (K = call.origin)
             /\ cluster.agent \notin DOMAIN RELEVANT_AGENT
             /\ cluster.agent \in DOMAIN RELEVANT_AGENT'
             /\ RELEVANT_AGENT'[cluster.agent] = [id |-> cluster.agent, block |-> FALSE]
             /\ \A i \in DOMAIN calls : calls[i].agent # cluster.agent ]_vars

\* two clusters have been created in a group whose mode is not None: one for
\* a key that is the requested origin, one for a key that is its site
C32_Witness ==
    /\ isolation_mode = "Logical"
    /\ Len(calls) = 2
    /\ calls[1].key = calls[1].origin
    /\ calls[2].key # calls[2].origin
    /\ calls[1].agent # calls[2].agent
    /\ agent_cluster[calls[1].key].origin_keyed
    /\ ~agent_cluster[calls[2].key].origin_keyed
    /\ {calls[1].agent, calls[2].agent} \subseteq DOMAIN RELEVANT_AGENT


\* ------------------------------------------------------------------------
\* Properties of determin_origin (checked under SpecOrigin)
\* ------------------------------------------------------------------------
\* the origin call i returned is a new opaque one: the creator's origin and
\* every origin returned earlier differ from it
FreshOpaque(i) ==
    /\ determined[i].returned.kind = "Opaque"
    /\ determined[i].origin # Some(determined[i].returned)
    /\ determined[i].returned \notin CreatorOrigins
    /\ \A j \in 1..(i - 1) : determined[j].returned # determined[i].returned

\* C33 (SpecOrigin): determin_origin(url, flags, creator) returns a fresh
\* opaque origin whenever flags contain the sandboxed-origin flag, whatever url
\* and creator are; otherwise a fresh opaque origin when url is absent;
\* otherwise the creator origin when url is about:blank or about:srcdoc and a
\* creator origin is present; otherwise the url's own origin (a tuple for a
\* URL that has one, an opaque origin for the others).
C33_DeterminOrigin ==
    \A i \in DOMAIN determined :
        LET call == determined[i]
        IN IF "ORIGIN_BROWSING_CONTEXT" \in call.flags THEN FreshOpaque(i)
           ELSE IF call.url = Absent THEN FreshOpaque(i)
           ELSE IF call.url[1] \in {"about:blank", "about:srcdoc"} /\ call.origin # Absent
                THEN call.returned = call.origin[1]
           ELSE IF url_tuple(call.url[1]) # Absent
                THEN call.returned = url_tuple(call.url[1])[1]
           ELSE call.returned.kind = "Opaque"

\* a sandboxed call made with about:blank and the origin an earlier call
\* returned, and an unsandboxed call that inherited its creator's origin
C33_Witness ==
    /\ Len(determined) = 2
    /\ determined[1].flags = {}
    /\ determined[1].url = Some("about:blank")
    /\ determined[1].origin = Some(Opaque(1))
    /\ determined[1].returned = Opaque(1)
    /\ "ORIGIN_BROWSING_CONTEXT" \in determined[2].flags
    /\ determined[2].url = Some("about:blank")
    /\ determined[2].origin = Some(Opaque(1))
    /\ determined[2].returned.kind = "Opaque"
    /\ determined[2].returned # Opaque(1)


\* ------------------------------------------------------------------------
\* Properties of browsing context groups (checked under SpecActive)
\* ------------------------------------------------------------------------
\* C34 (SpecActive): after a new browsing context group and document have been
\* created, the new group's context set holds exactly the new context's ID,
\* the returned context's group link is the new group's ID, and the group is
\* in the process-wide group set under its own ID; a context made by
\* new_browsing_context alone has no group link.
C34_GroupMembership ==
    /\ \A c \in DOMAIN BROWSING_CONTEXT_SET :
        LET context == BROWSING_CONTEXT_SET[c]
        IN /\ context.id = c
           /\ context.group # Absent
           /\ context.group[1] \in DOMAIN BROWSING_CONTEXT_GROUP_SET
           /\ BROWSING_CONTEXT_GROUP_SET[context.group[1]].browsing_context = {c}
    /\ \A g \in DOMAIN BROWSING_CONTEXT_GROUP_SET :
        LET group == BROWSING_CONTEXT_GROUP_SET[g]
        IN /\ group.id = g
           /\ \E c \in DOMAIN BROWSING_CONTEXT_SET :
                /\ group.browsing_context = {c}
                /\ BROWSING_CONTEXT_SET[c].group = Some(g)
           /\ \A n \in {new_browsing_context(World, group)} :
                /\ n.context.group = Absent
                /\ n.context.id \notin n.group.browsing_context

\* two groups have been created, each with its own context
C34_Witness ==
    \E g, h \in DOMAIN BROWSING_CONTEXT_GROUP_SET, c, d \in DOMAIN BROWSING_CONTEXT_SET :
        /\ g # h
        /\ c # d
        /\ BROWSING_CONTEXT_GROUP_SET[g].browsing_context = {c}
        /\ BROWSING_CONTEXT_GROUP_SET[h].browsing_context = {d}
        /\ BROWSING_CONTEXT_SET[c].group = Some(g)
        /\ BROWSING_CONTEXT_SET[d].group = Some(h)


\* the nodes of a document that holds the html/head/body skeleton: node 1 is
\* the Document, nodes 2, 3 and 4 are html, head and body as populate_hhb
\* creates them
Skeleton(nodes) ==
    /\ Len(nodes) = 4
    /\ nodes[1].child_nodes = <<2>>
    /\ nodes[2].child_nodes = <<3, 4>>
    /\ nodes[3].next_sibling = 4
    /\ nodes[4].previous_sibling = 3
    /\ nodes[3].child_nodes = <<>>
    /\ nodes[4].child_nodes = <<>>

\* C35 (SpecActive): after populate_hhb on a newly created Document, the
\* document's child sequence is exactly [html], html's child sequence is
\* exactly [head, body] in that order, head.next_sibling is body,
\* body.previous_sibling is head, and head and body have no children. Stated
\* of populate_hhb called on every Document that Document::new alone has made,
\* and of every Document new_browsing_context has made and populated.
C35_InitialSkeleton ==
    \A d \in DOMAIN documents :
        IF Len(documents[d].nodes) = 1
        THEN \A w \in {populate_hhb(World, d)} : Skeleton(w.documents[d].nodes)
        ELSE Skeleton(documents[d].nodes)

\* a Document that new_browsing_context has populated, next to one that has
\* not been populated
C35_Witness ==
    \E d, e \in DOMAIN documents :
        /\ Skeleton(documents[d].nodes)
        /\ documents[d].nodes[2].previous_sibling = Nil
        /\ documents[d].nodes[4].next_sibling = Nil
        /\ Len(documents[e].nodes) = 1


\* ------------------------------------------------------------------------
\* Further properties of realms (checked under SpecRealm)
\* ------------------------------------------------------------------------
\* C36 (SpecRealm), as stated: when set_window_settings_object is given a
\* reserved environment, the realm's resulting settings object has the ready
\* flag the reserved environment had (one that was ready stays ready).
C36_ReservedReadinessKept ==
    [][ \A self \in realms, e \in ReservedEnvironments :
          SetWindowSettingsObject(self, Some(e)) =>
            RELEVANT_REALM'[self.id].settings_object[1].ready = e.ready ]_vars

\* C36 (SpecRealm), amended: when set_window_settings_object is given a
\* reserved environment, the realm's resulting settings object takes the
\* environment's ID and browsing-context link but not its ready flag: the flag
\* is false whatever the reserved environment's flag was, and no realm already
\* in the registry under another ID has its flag changed.
C36_ReservedReadinessReset ==
    [][ \A self \in realms, e \in ReservedEnvironments :
          SetWindowSettingsObject(self, Some(e)) =>
            /\ RELEVANT_REALM'[self.id].settings_object[1].id = e.id
            /\ RELEVANT_REALM'[self.id].settings_object[1].ready = FALSE
            /\ \A id \in DOMAIN RELEVANT_REALM \ {self.id} :
                    RELEVANT_REALM'[id] = RELEVANT_REALM[id] ]_vars

\* a realm registered with a reserved environment's ID and browsing-context
\* link, which no other call produces, and a flag that is not set
C36_Witness ==
    \E a \in DOMAIN RELEVANT_REALM :
        /\ RELEVANT_REALM[a].settings_object[1].browsing_context = Some(0)
        /\ RELEVANT_REALM[a].settings_object[1].id = 1
        /\ COUNT["EnvironmentID"] = 0
        /\ RELEVANT_REALM[a].settings_object[1].ready = FALSE


\* ------------------------------------------------------------------------
\* Agent sharing between origins (checked under Spec)
\* ------------------------------------------------------------------------
\* C37 (Spec): within one group, an AgentID returned by window_agent(O, true)
\* for a tuple origin O is never also returned for a different origin O', in
\* any call order; in particular not when O has port 65535, the port
\* obtain_site substitutes, and O' has the same scheme and host with another
\* port and is requested with oac = false.
C37_OriginKeyedNotShared ==
    \A i \in DOMAIN calls, j \in DOMAIN calls :
        ( /\ calls[i].oac
          /\ calls[i].origin.kind = "Tuple"
          /\ calls[j].origin # calls[i].origin )
        => calls[i].agent # calls[j].agent


\* ------------------------------------------------------------------------
\* Parents and positions (checked under SpecInsert)
\* ------------------------------------------------------------------------
\* the places where node n occurs: parent and position in its child sequence
Occurrences(n) ==
    {<<p, i>> \in Nodes \X (1..(MaxOps + 1)) :
        i \in DOMAIN store[p].child_nodes /\ store[p].child_nodes[i] = n}

\* C38 (SpecInsert): after any sequence of append_child, insert and pre_insert
\* calls, every node occurs at most once in the child sequence of at most one
\* parent: inserting a node that is already a child of the same or another
\* parent does not leave it in its old position as well.
C38_SinglePosition ==
    ~panicked => \A n \in Nodes : Cardinality(Occurrences(n)) <= 1

\* C39 (SpecInsert): after append_child, insert or pre_insert has put a node
\* into parent P's child sequence, the node's parent link refers to P; in every
\* reachable state a node is in P's child sequence exactly when its parent link
\* is P.
C39_ParentLink ==
    ~panicked =>
        \A n \in Nodes, p \in Nodes :
            (\E i \in DOMAIN store[p].child_nodes : store[p].child_nodes[i] = n)
            <=> store[n].parent_node = p


\* ------------------------------------------------------------------------
\* Readiness under concurrent callers (checked under SpecReady)
\* ------------------------------------------------------------------------
\* C40 (SpecReady): for every RealmID in the Realm registry, once its
\* environment's ready flag has been set by Document::active it is never seen
\* unset again, under any interleaving of Realm::create,
\* set_window_settings_object and Document::active calls made by concurrent
\* callers, RealmIDs being allocated at the same time included.
C40_ReadinessMonotonic ==
    [][ \A id \in DOMAIN RELEVANT_REALM :
          ( /\ RELEVANT_REALM[id].settings_object # Absent
            /\ RELEVANT_REALM[id].settings_object[1].ready )
          => ( /\ id \in DOMAIN RELEVANT_REALM'
               /\ RELEVANT_REALM'[id].settings_object # Absent
               /\ RELEVANT_REALM'[id].settings_object[1].ready ) ]_vars

====
